---- MODULE Spec2Model ----
(***************************************************************************)
(* Model of the `hash` command line tool (src/hash/src/main.rs): the hex   *)
(* literal decoder, the merge of the text and file arguments into one      *)
(* ordered input list, the compute loop (one-shot and update mode) and the *)
(* framed output block.                                                    *)
(*                                                                         *)
(* A char is its Unicode code point, a string (&str / String) is a         *)
(* sequence of chars, a byte vector (Vec<u8>) is a sequence of 0..255.     *)
(***************************************************************************)
EXTENDS Integers, Sequences, FiniteSets, TLC

VARIABLES
    matches,    \* the parsed command line (ArgMatches), fixed for a run
    pc,         \* position of main: "merge", "compute", "done", "exit", "idle"
    i,          \* get_inputs: cursor into the text arguments (0-based)
    j,          \* get_inputs: cursor into the file arguments (0-based)
    inputs,     \* get_inputs: the Vec<HashInput> built so far / handed to compute
    hasher,     \* compute: HashImpl.bytes
    pos,        \* compute: number of inputs the for loop has consumed
    stdout,     \* every println! of the run, in order
    stderr,     \* every eprintln! of the run, in order
    status,     \* process exit status: "running", "OK", "DATAERR", "IOERR"
    call,       \* a single function under test, with its arguments
    style,      \* the OutputStyle of a function under test
    ret         \* the value the function under test returned

runVars == <<matches, pc, i, j, inputs, hasher, pos, stdout, stderr, status>>
callVars == <<call, style, ret>>
vars == <<matches, pc, i, j, inputs, hasher, pos, stdout, stderr, status,
          call, style, ret>>

----------------------------------------------------------------------------
(* Bounds of the model *)

\* command line positions that may hold a --text or --file value
MaxIndex == 3
\* longest token (in chars) handed to hex_to_byte
MaxTokLen == 5
\* longest byte sequence of the encode/decode round trip
MaxBytes == 3
\* longest mix of separators and tokens handed to hex_to_byte_slice
MaxPieces == 5
\* how far past the preview width the entries handed to OutputStyle go
MaxOver == 2

----------------------------------------------------------------------------
(* Strings and bytes *)

Byte == 0 .. 255

RECURSIVE Concat(_)
\* the concatenation of a sequence of sequences (by halving)
Concat(ss) ==
    IF Len(ss) = 0 THEN <<>>
    ELSE IF Len(ss) = 1 THEN ss[1]
    ELSE LET mid == Len(ss) \div 2 IN
         Concat(SubSeq(ss, 1, mid)) \o Concat(SubSeq(ss, mid + 1, Len(ss)))

\* "=".repeat(n), for a one-char string
repeat(s, n) == [k \in 1 .. n |-> s[1]]

\* the UTF-8 encoding of char c
encode_utf8(c) ==
    IF c < 128 THEN <<c>>
    ELSE IF c < 2048 THEN <<192 + (c \div 64), 128 + (c % 64)>>
    ELSE IF c < 65536
         THEN <<224 + (c \div 4096), 128 + ((c \div 64) % 64), 128 + (c % 64)>>
         ELSE <<240 + (c \div 262144), 128 + ((c \div 4096) % 64),
                128 + ((c \div 64) % 64), 128 + (c % 64)>>

\* str::as_bytes: the UTF-8 bytes of a string
as_bytes(s) == Concat([k \in 1 .. Len(s) |-> encode_utf8(s[k])])

\* str::len: the length of a string in BYTES
str_len(s) == Len(as_bytes(s))

\* str::starts_with
starts_with(s, prefix) ==
    /\ Len(s) >= Len(prefix)
    /\ SubSeq(s, 1, Len(prefix)) = prefix

\* char::is_whitespace (the Unicode White_Space property)
is_whitespace(c) ==
    c \in (9 .. 13) \cup {32, 133, 160, 5760} \cup (8192 .. 8202)
          \cup {8232, 8233, 8239, 8287, 12288}

\* str::trim: strip leading and trailing whitespace
RECURSIVE trim_start(_)
trim_start(s) ==
    IF s # <<>> /\ is_whitespace(Head(s)) THEN trim_start(Tail(s)) ELSE s

RECURSIVE trim_end(_)
trim_end(s) ==
    IF s # <<>> /\ is_whitespace(s[Len(s)])
    THEN trim_end(SubSeq(s, 1, Len(s) - 1))
    ELSE s

trim(s) == trim_end(trim_start(s))

----------------------------------------------------------------------------
(* HexError and the hex decoder *)

Ok(v) == [ok |-> TRUE, val |-> v]
Err(e) == [ok |-> FALSE, err |-> e]

InvalidHexPrefix(hex) == [kind |-> "InvalidHexPrefix", hex |-> hex]
InvalidLength(hex) == [kind |-> "InvalidLength", hex |-> hex]
InvalidHexCharacter(ch, hex) ==
    [kind |-> "InvalidHexCharacter", ch |-> ch, hex |-> hex]

\* `ch as u8`: the low 8 bits of the code point
as_u8(ch) == ch % 256

\* val that forgets the offset 10 of the lowercase digits a-f
val_lower_no_offset(ch, hex) ==
    LET chu8 == as_u8(ch) IN
    IF ch \in 65 .. 70 THEN Ok(chu8 - 65 + 10)
    ELSE IF ch \in 97 .. 102 THEN Ok(chu8 - 97)
    ELSE IF ch \in 48 .. 57 THEN Ok(chu8 - 48)
    ELSE Err(InvalidHexCharacter(ch, hex))

\* fn val(ch, hex): the value of one hex digit
val(ch, hex) ==
    LET chu8 == as_u8(ch) IN
    IF ch \in 65 .. 70 THEN Ok(chu8 - 65 + 10)
    ELSE IF ch \in 97 .. 102 THEN Ok(chu8 - 97 + 10)
    ELSE IF ch \in 48 .. 57 THEN Ok(chu8 - 48)
    ELSE Err(InvalidHexCharacter(ch, hex))

\* hex_to_byte with the two nibbles the wrong way round
hex_to_byte_swapped(hex_string) ==
    IF str_len(hex_string) # 4
    THEN Err(InvalidLength(hex_string))
    ELSE IF /\ ~starts_with(hex_string, <<48, 120>>)
            /\ ~starts_with(hex_string, <<48, 88>>)
    THEN Err(InvalidHexPrefix(hex_string))
    ELSE
      LET chars == SubSeq(hex_string, 3, Len(hex_string)) IN
      IF Len(chars) < 1 THEN Err(InvalidLength(hex_string))
      ELSE
        LET hi == val(chars[1], hex_string) IN
        IF ~hi.ok THEN hi
        ELSE IF Len(chars) < 2 THEN Err(InvalidLength(hex_string))
        ELSE
          LET lo == val(chars[2], hex_string) IN
          IF ~lo.ok THEN lo
          ELSE Ok(lo.val * 16 + hi.val)

\* fn hex_to_byte(hex_string): one "0xNN" token to its byte
hex_to_byte(hex_string) ==
    IF str_len(hex_string) # 4
    THEN Err(InvalidLength(hex_string))
    ELSE IF /\ ~starts_with(hex_string, <<48, 120>>)
            /\ ~starts_with(hex_string, <<48, 88>>)
    THEN Err(InvalidHexPrefix(hex_string))
    ELSE
      LET chars == SubSeq(hex_string, 3, Len(hex_string)) IN
      IF Len(chars) < 1 THEN Err(InvalidLength(hex_string))
      ELSE
        LET hi == val(chars[1], hex_string) IN
        IF ~hi.ok THEN hi
        ELSE IF Len(chars) < 2 THEN Err(InvalidLength(hex_string))
        ELSE
          LET lo == val(chars[2], hex_string) IN
          IF ~lo.ok THEN lo
          ELSE Ok(hi.val * 16 + lo.val)

\* is_separator that forgets the comma
is_separator_no_comma(c) == is_whitespace(c)

\* the closure of hex_to_byte_slice's split: whitespace or a comma
is_separator(c) == is_whitespace(c) \/ c = 44

\* str::split(pred): the pieces between separators, empty pieces included
RECURSIVE split(_, _)
split(s, cur) ==
    IF s = <<>> THEN <<cur>>
    ELSE IF is_separator(Head(s)) THEN <<cur>> \o split(Tail(s), <<>>)
    ELSE split(Tail(s), Append(cur, Head(s)))

\* the split / trim / filter stages of hex_to_byte_slice: its tokens
tokens(hex_string) ==
    LET pieces == split(hex_string, <<>>)
        trimmed == [k \in 1 .. Len(pieces) |-> trim(pieces[k])]
    IN  SelectSeq(trimmed, LAMBDA s : s # <<>>)

\* decode_tokens that stops at a bad token and keeps the bytes before it
RECURSIVE decode_tokens_partial(_, _)
decode_tokens_partial(toks, acc) ==
    IF toks = <<>> THEN [exit |-> FALSE, bytes |-> acc]
    ELSE LET b == hex_to_byte(Head(toks)) IN
         IF b.ok THEN decode_tokens_partial(Tail(toks), Append(acc, b.val))
         ELSE [exit |-> FALSE, bytes |-> acc]

\* the map stage: decode the tokens in order, leave at the first bad one
RECURSIVE decode_tokens(_, _)
decode_tokens(toks, acc) ==
    IF toks = <<>> THEN [exit |-> FALSE, bytes |-> acc]
    ELSE LET b == hex_to_byte(Head(toks)) IN
         IF b.ok THEN decode_tokens(Tail(toks), Append(acc, b.val))
         ELSE [exit |-> TRUE, code |-> "DATAERR", msg |-> b.err]

\* fn hex_to_byte_slice(hex_string): the bytes, or the exit it takes
hex_to_byte_slice(hex_string) == decode_tokens(tokens(hex_string), <<>>)

\* one byte as two lowercase hex digits, format!("{:02x}", b)
hex_digit(n) == IF n < 10 THEN 48 + n ELSE 87 + n
format_02x(b) == <<hex_digit(b \div 16), hex_digit(b % 16)>>

\* fn bytes_to_hex_string(bytes)
bytes_to_hex_string(bytes) ==
    Concat([k \in 1 .. Len(bytes) |-> format_02x(bytes[k])])

----------------------------------------------------------------------------
(* HashAlgorithm, HashImpl *)

HashAlgorithm == {"MD5", "SHA256", "BLAKE3"}

\* #[derive(Debug)] on HashAlgorithm: the text "{:?}" prints
algo_debug(algo) ==
    IF algo = "MD5" THEN <<77, 68, 53>>
    ELSE IF algo = "SHA256" THEN <<83, 72, 65, 50, 53, 54>>
    ELSE <<66, 76, 65, 75, 69, 51>>

(* The three digests are library functions (md5, sha2, blake3).  The model  *)
(* keeps what the program relies on: each is a deterministic function of    *)
(* the whole byte sequence, sensitive to the order of the bytes, of a width *)
(* fixed by the algorithm (16/32/32 bytes, scaled here to 1/2/2).           *)
(* The stand-in digest folds h -> (h * mult + byte + 1) % modulus over the     *)
(* bytes in order, from the seed.  segment gives the fold over the bytes    *)
(* lo..hi as the pair <<a, b>> of the map h -> (a * h + b) % modulus, built *)
(* by halving so that long inputs need no deep recursion.                   *)
RECURSIVE segment(_, _, _, _, _)
segment(input, lo, hi, mult, modulus) ==
    IF lo > hi THEN <<1, 0>>
    ELSE IF lo = hi THEN <<mult % modulus, (input[lo] + 1) % modulus>>
    ELSE LET mid == (lo + hi) \div 2
             l == segment(input, lo, mid, mult, modulus)
             r == segment(input, mid + 1, hi, mult, modulus)
         IN  <<(r[1] * l[1]) % modulus, (r[1] * l[2] + r[2]) % modulus>>

\* the state after all bytes of input
absorb(input, seed, mult, modulus) ==
    LET f == segment(input, 1, Len(input), mult, modulus)
    IN  (f[1] * seed + f[2]) % modulus

md5hash(input) == <<absorb(input, 7, 31, 251)>>

sha256hash(input) ==
    LET h == absorb(input, 11, 33, 32749) IN <<h \div 256, h % 256>>

blake3hash(input) ==
    LET h == absorb(input, 13, 37, 32719) IN <<h % 256, h \div 256>>

\* HashImpl::new
HashImpl_new == <<>>

\* update that keeps only the last slice
update_replacing(bytes, input) == input

\* HashImpl::update: append the slice to the buffer
update(bytes, input) == bytes \o input

\* HashImpl::digest
digest(input, algo) ==
    IF algo = "MD5" THEN md5hash(input)
    ELSE IF algo = "SHA256" THEN sha256hash(input)
    ELSE blake3hash(input)

\* HashImpl::hex_digest: the digest of the buffer
hex_digest(bytes, algo) == bytes_to_hex_string(digest(bytes, algo))

\* HashImpl::hex_digest_input: the digest of the given slice
hex_digest_input(input, algo) == bytes_to_hex_string(digest(input, algo))

----------------------------------------------------------------------------
(* OutputStyle *)

\* the preview width of add_text, add_file and summary
PreviewLen == 40
\* the width of the delimiter line of summary
SurrLen == 80

TEXT == <<84, 69, 88, 84>>
FILE == <<70, 73, 76, 69>>
COMPUTE == <<67, 79, 77, 80, 85, 84, 69>>
UPDATE == <<85, 80, 68, 65, 84, 69>>
NL == <<10>>
Ellipsis == <<46, 46, 46>>

\* take that keeps one char too many
take_one_more(s, n) == SubSeq(s, 1, IF Len(s) < n + 1 THEN Len(s) ELSE n + 1)

\* str.chars().take(n).collect()
take(s, n) == SubSeq(s, 1, IF Len(s) < n THEN Len(s) ELSE n)

\* OutputStyle::new, the derived Default
OutputStyle_new ==
    [entry |-> <<>>, len |-> 0, entry_type |-> <<>>, algo |-> "SHA256",
     hash |-> <<>>]

\* OutputStyle::add_file
add_file(self, path) ==
    LET entry_chars == take(path, PreviewLen) IN
    [self EXCEPT !.len = Len(entry_chars), !.entry = entry_chars,
                 !.entry_type = FILE]

\* OutputStyle::add_text
add_text(self, text) ==
    LET entry_chars == take(text, PreviewLen) IN
    [self EXCEPT !.len = Len(entry_chars), !.entry = entry_chars,
                 !.entry_type = TEXT]

\* OutputStyle::set_algorithm
set_algorithm(self, algorithm) == [self EXCEPT !.algo = algorithm]

\* OutputStyle::add_hash
add_hash(self, hash_str) == [self EXCEPT !.hash = hash_str]

\* the truncation marker summary appends to the entry line
etc_of(self) == IF self.len < PreviewLen THEN <<>> ELSE Ellipsis

\* the "[{} {}] [{}]{}" line of summary
entry_line(self, action) ==
    <<91>> \o action \o <<32>> \o self.entry_type \o <<93, 32, 91>>
           \o self.entry \o <<93>> \o etc_of(self)

\* the "[{:?} HASH] [{}]" line of summary
hash_line(self) ==
    <<91>> \o algo_debug(self.algo) \o <<32, 72, 65, 83, 72, 93, 32, 91>>
           \o self.hash \o <<93>>

\* OutputStyle::summary: four lines, each ended by a line feed
summary(self, action) ==
    LET surr_line == repeat(<<61>>, SurrLen) IN
    surr_line \o NL \o entry_line(self, action) \o NL \o hash_line(self) \o NL
              \o surr_line \o NL

----------------------------------------------------------------------------
(* The command line and the file system *)

\* HashInput::Text / HashInput::File.  idx is the origin index of the value
\* on the command line: the code drops it, the model keeps it beside the
\* value so that the order of the result can be stated.
Text(v, idx) == [tag |-> "Text", value |-> v, idx |-> idx]
File(v, idx) == [tag |-> "File", value |-> v, idx |-> idx]

\* the --text values a run may be given:
\*   "0xfF, 0X10"   "0x02 0xzz" (its second token is no hex byte)
TextPool ==
    { <<48, 120, 102, 70, 44, 32, 48, 88, 49, 48>>,
      <<48, 120, 48, 50, 32, 48, 120, 122, 122>> }

\* the --file paths a run may be given: "a", "b", "c"
FilePool == { <<97>>, <<98>>, <<99>> }

\* the files behind the paths: "a" holds "0X7e\n0x80", "b" holds "0x03 0x1"
\* (its second token is too short), "c" cannot be read
read_to_string(path) ==
    IF path = <<97>>
    THEN Ok(<<48, 88, 55, 101, 10, 48, 120, 56, 48>>)
    ELSE IF path = <<98>>
    THEN Ok(<<48, 120, 48, 51, 32, 48, 120, 49>>)
    ELSE Err("NotFound")

\* std::fs::read: the bytes of the file
read(path) ==
    LET s == read_to_string(path) IN
    IF s.ok THEN Ok(as_bytes(s.val)) ELSE s

\* what one command line position holds
Slot ==
    {[tag |-> "None"]}
      \cup {[tag |-> "Text", value |-> v] : v \in TextPool}
      \cup {[tag |-> "File", value |-> v] : v \in FilePool}

\* the positions 0 .. MaxIndex-1 holding a value of the given option, ascending
indices_of(slots, tag) ==
    SelectSeq([k \in 1 .. MaxIndex |-> k - 1], LAMBDA x : slots[x].tag = tag)

\* the values of the given option, in command line order
values_of(slots, tag) ==
    [k \in 1 .. Len(indices_of(slots, tag)) |->
        slots[indices_of(slots, tag)[k]].value]

\* the ArgMatches of every command line the model runs
Matches ==
    { [md5 |-> a = "MD5", blake3 |-> a = "BLAKE3",
       hex |-> h, update |-> u, quiet |-> q,
       text_indices |-> indices_of(slots, "Text"),
       text_values |-> values_of(slots, "Text"),
       file_indices |-> indices_of(slots, "File"),
       file_values |-> values_of(slots, "File")] :
      a \in HashAlgorithm, h \in BOOLEAN, u \in BOOLEAN, q \in BOOLEAN,
      slots \in [0 .. MaxIndex - 1 -> Slot] }

----------------------------------------------------------------------------
(* get_inputs: the merge of the text and the file arguments *)

\* text_is_next with the comparison turned around
text_is_next_reversed(text_index, file_index) == text_index > file_index

\* the test of the merge loop: take the text argument next
text_is_next(text_index, file_index) == text_index < file_index

\* the values from cursor k on, as HashInputs (text_values[i..], file_values[j..])
text_tail(m, k) ==
    [n \in 1 .. Len(m.text_values) - k |->
        Text(m.text_values[k + n], m.text_indices[k + n])]
file_tail(m, k) ==
    [n \in 1 .. Len(m.file_values) - k |->
        File(m.file_values[k + n], m.file_indices[k + n])]

\* merge_tail without its else-if branch: the file tail is dropped
merge_tail_text_only(m, ii, jj) ==
    IF ii < Len(m.text_indices) THEN text_tail(m, ii) ELSE <<>>

\* the tail appended after the merge loop
merge_tail(m, ii, jj) ==
    IF ii < Len(m.text_indices) THEN text_tail(m, ii)
    ELSE IF jj < Len(m.file_indices) THEN file_tail(m, jj)
    ELSE <<>>

\* one iteration of the while loop of get_inputs
MergeStep ==
    /\ pc = "merge"
    /\ i < Len(matches.text_indices)
    /\ j < Len(matches.file_indices)
    /\ IF text_is_next(matches.text_indices[i + 1], matches.file_indices[j + 1])
       THEN /\ inputs' = Append(inputs, Text(matches.text_values[i + 1],
                                             matches.text_indices[i + 1]))
            /\ i' = i + 1
            /\ j' = j
       ELSE /\ inputs' = Append(inputs, File(matches.file_values[j + 1],
                                             matches.file_indices[j + 1]))
            /\ j' = j + 1
            /\ i' = i
    /\ UNCHANGED <<matches, pc, hasher, pos, stdout, stderr, status>>
    /\ UNCHANGED callVars

\* the loop has ended: append the tail, return, and main enters compute
MergeTail ==
    /\ pc = "merge"
    /\ ~(i < Len(matches.text_indices) /\ j < Len(matches.file_indices))
    /\ inputs' = inputs \o merge_tail(matches, i, j)
    /\ pc' = "compute"
    /\ UNCHANGED <<matches, i, j, hasher, pos, stdout, stderr, status>>
    /\ UNCHANGED callVars

----------------------------------------------------------------------------
(* compute: the loop over the inputs *)

\* the algorithm the flags select
algo_of(m) ==
    IF m.md5 THEN "MD5" ELSE IF m.blake3 THEN "BLAKE3" ELSE "SHA256"

\* the bytes of one input, or the exit the run takes while getting them
input_bytes(m, input) ==
    IF input.tag = "Text"
    THEN IF m.hex
         THEN hex_to_byte_slice(input.value)
         ELSE [exit |-> FALSE, bytes |-> as_bytes(input.value)]
    ELSE LET r == IF m.hex THEN read_to_string(input.value)
                  ELSE read(input.value) IN
         IF ~r.ok
         THEN [exit |-> TRUE, code |-> "IOERR",
               msg |-> [kind |-> "CannotReadFile", file |-> input.value,
                        err |-> r.err]]
         ELSE IF m.hex THEN hex_to_byte_slice(r.val)
         ELSE [exit |-> FALSE, bytes |-> r.val]

\* the OutputStyle of one iteration before the digest is known
style_of(m, input) ==
    LET st == set_algorithm(OutputStyle_new, algo_of(m)) IN
    IF m.quiet THEN st
    ELSE IF input.tag = "Text" THEN add_text(st, input.value)
    ELSE add_file(st, input.value)

\* hasher_after that feeds the shared HashImpl in one-shot mode too
hasher_after_always(m, bytes, input) == update(bytes, input)

\* the buffer of the shared HashImpl after one iteration
hasher_after(m, bytes, input) ==
    IF m.update THEN update(bytes, input) ELSE bytes

\* the digest one iteration computes
digest_of(m, bytes, input) ==
    IF m.update
    THEN hex_digest(hasher_after(m, bytes, input), algo_of(m))
    ELSE hex_digest_input(input, algo_of(m))

\* printed that frames the digest whatever the quiet flag says
printed_always_framed(m, st, dig) ==
    summary(add_hash(st, dig), IF m.update THEN UPDATE ELSE COMPUTE)

\* what one iteration prints
printed(m, st, dig) ==
    IF m.quiet THEN dig
    ELSE summary(add_hash(st, dig), IF m.update THEN UPDATE ELSE COMPUTE)

\* one iteration of the for loop whose input yields its bytes
ComputeInput ==
    /\ pc = "compute"
    /\ pos < Len(inputs)
    /\ LET input == inputs[pos + 1]
           got == input_bytes(matches, input)
       IN  /\ ~got.exit
           /\ hasher' = hasher_after(matches, hasher, got.bytes)
           /\ stdout' = Append(stdout,
                  printed(matches, style_of(matches, input),
                          digest_of(matches, hasher, got.bytes)))
    /\ pos' = pos + 1
    /\ UNCHANGED <<matches, pc, i, j, inputs, stderr, status>>
    /\ UNCHANGED callVars

\* one iteration of the for loop that ends in std::process::exit
ComputeExit ==
    /\ pc = "compute"
    /\ pos < Len(inputs)
    /\ LET got == input_bytes(matches, inputs[pos + 1])
       IN  /\ got.exit
           /\ stderr' = Append(stderr, got.msg)
           /\ status' = got.code
    /\ pc' = "exit"
    /\ UNCHANGED <<matches, i, j, inputs, hasher, pos, stdout>>
    /\ UNCHANGED callVars

\* the loop is over: compute and main return
ComputeDone ==
    /\ pc = "compute"
    /\ pos = Len(inputs)
    /\ pc' = "done"
    /\ status' = "OK"
    /\ UNCHANGED <<matches, i, j, inputs, hasher, pos, stdout, stderr>>
    /\ UNCHANGED callVars

----------------------------------------------------------------------------
(* A run of main *)

NoCall == [fn |-> "none"]

Init ==
    /\ matches \in Matches
    /\ pc = "merge"
    /\ i = 0
    /\ j = 0
    /\ inputs = <<>>
    /\ hasher = HashImpl_new
    /\ pos = 0
    /\ stdout = <<>>
    /\ stderr = <<>>
    /\ status = "running"
    /\ call = NoCall
    /\ style = OutputStyle_new
    /\ ret = NoCall

Next ==
    \/ MergeStep
    \/ MergeTail
    \/ ComputeInput
    \/ ComputeExit
    \/ ComputeDone

Spec == Init /\ [][Next]_vars

----------------------------------------------------------------------------
(* Properties of a run *)

\* get_inputs has returned
Returned == pc \in {"compute", "done", "exit"}

\* the bytes the k-th input yields
BytesOf(k) == input_bytes(matches, inputs[k]).bytes

\* the bytes of the first n inputs, concatenated in resolved order
ConsumedBytes(n) == Concat([k \in 1 .. n |-> BytesOf(k)])

\* what the iteration over the k-th input prints for the digest dig
PrintedFor(k, dig) == printed(matches, style_of(matches, inputs[k]), dig)

\* every input of the run yields its bytes
AllDecode ==
    \A k \in 1 .. Len(inputs) : ~input_bytes(matches, inputs[k]).exit

\* C1: get_inputs returns the entries ordered by origin index ascending:
\* of every two adjacent entries the first has the smaller origin index.
C1_OrderedByIndex ==
    Returned =>
        \A k \in 1 .. Len(inputs) - 1 : inputs[k].idx < inputs[k + 1].idx

\* text indices [0, 2] and file indices [1] have given [Text@0, File@1, Text@2]
C1_Witness ==
    /\ Returned
    /\ matches.text_indices = <<0, 2>>
    /\ matches.file_indices = <<1>>
    /\ [k \in 1 .. Len(inputs) |-> <<inputs[k].tag, inputs[k].idx>>]
         = << <<"Text", 0>>, <<"File", 1>>, <<"Text", 2>> >>

\* C2: in update mode a run over n >= 1 inputs that all decode emits exactly
\* one digest, and emits it only after the last input has been consumed.
C2_OneDigestAtEnd ==
    (Returned /\ matches.update /\ Len(inputs) >= 1 /\ AllDecode) =>
        Len(stdout) = (IF pos = Len(inputs) THEN 1 ELSE 0)

\* C3: after any sequence of update calls the buffer is the concatenation of
\* the slices in resolved order, and the digest of the buffer (hex_digest) is
\* the one-shot digest (hex_digest_input) of that concatenation, for each
\* algorithm.
C3_UpdateIsConcat ==
    (Returned /\ matches.update) =>
        LET slices == [k \in 1 .. pos |-> BytesOf(k)] IN
        /\ hasher = Concat(slices)
        /\ Len(stdout) = pos
        /\ \A k \in 1 .. pos :
              stdout[k] =
                PrintedFor(k, hex_digest_input(Concat(SubSeq(slices, 1, k)),
                                               algo_of(matches)))

\* two updates with different non-empty slices x then y have been made
C3_Witness ==
    /\ matches.update
    /\ pos = 2
    /\ BytesOf(1) # <<>>
    /\ BytesOf(2) # <<>>
    /\ BytesOf(1) # BytesOf(2)
    /\ hasher = BytesOf(1) \o BytesOf(2)
    /\ hasher # BytesOf(2) \o BytesOf(1)

\* C4: in one-shot mode the run emits one digest per consumed input, in
\* resolved order, the k-th being the digest of the k-th input's bytes alone,
\* and the shared HashImpl buffer stays empty; a run over n inputs that all
\* decode ends with exactly n digests.
C4_OneShotIndependent ==
    (Returned /\ ~matches.update) =>
        /\ hasher = <<>>
        /\ Len(stdout) = pos
        /\ \A k \in 1 .. pos :
              stdout[k] =
                PrintedFor(k, hex_digest_input(BytesOf(k), algo_of(matches)))
        /\ (pc = "done" /\ AllDecode) => Len(stdout) = Len(inputs)

\* a one-shot run over three inputs, two of them with different bytes, is over
C4_Witness ==
    /\ ~matches.update
    /\ pc = "done"
    /\ Len(inputs) = 3
    /\ Len(stdout) = 3
    /\ BytesOf(1) # BytesOf(2)
    /\ stdout[1] # stdout[2]

\* s ends with suffix
ends_with(s, suffix) ==
    /\ Len(s) >= Len(suffix)
    /\ SubSeq(s, Len(s) - Len(suffix) + 1, Len(s)) = suffix

\* s is a non-empty string of the digits 0-9a-f
IsLowerHex(s) ==
    /\ s # <<>>
    /\ \A k \in 1 .. Len(s) : s[k] \in (48 .. 57) \cup (97 .. 102)

\* the delimiter line: eighty '='
Delimiter ==
    << 61, 61, 61, 61, 61, 61, 61, 61, 61, 61, 61, 61, 61, 61, 61, 61,
       61, 61, 61, 61, 61, 61, 61, 61, 61, 61, 61, 61, 61, 61, 61, 61,
       61, 61, 61, 61, 61, 61, 61, 61, 61, 61, 61, 61, 61, 61, 61, 61,
       61, 61, 61, 61, 61, 61, 61, 61, 61, 61, 61, 61, 61, 61, 61, 61,
       61, 61, 61, 61, 61, 61, 61, 61, 61, 61, 61, 61, 61, 61, 61, 61 >>

\* the text of the mode label and of the algorithm tag
ModeLabel == IF matches.update THEN <<85, 80, 68, 65, 84, 69>>
             ELSE <<67, 79, 77, 80, 85, 84, 69>>
AlgoTag ==
    IF matches.md5 THEN <<77, 68, 53>>
    ELSE IF matches.blake3 THEN <<66, 76, 65, 75, 69, 51>>
    ELSE <<83, 72, 65, 50, 53, 54>>

\* o is the framed block: the delimiter line, a line opening with
\* "[<MODE> ", a line "[<ALGO> HASH] [<hex digest>]", the delimiter line
IsFramed(o) ==
    LET head == Delimiter \o <<10, 91>> \o ModeLabel \o <<32>>
        tag == <<10, 91>> \o AlgoTag \o <<32, 72, 65, 83, 72, 93, 32, 91>>
        foot == <<93, 10>> \o Delimiter \o <<10>>
        rest == SubSeq(o, Len(head) + 1, Len(o) - Len(foot))
    IN  /\ starts_with(o, head)
        /\ ends_with(o, foot)
        /\ Len(o) >= Len(head) + Len(tag) + Len(foot)
        /\ \E n \in 1 .. Len(rest) - Len(tag) + 1 :
              /\ SubSeq(rest, n, n + Len(tag) - 1) = tag
              /\ IsLowerHex(SubSeq(rest, n + Len(tag), Len(rest)))

\* C9: with quiet set every output of the run is a bare hex digest string, in
\* one-shot and in update mode alike; with quiet not set every output is the
\* framed block, labelled COMPUTE (one-shot) or UPDATE (update mode).
C9_QuietIsBare ==
    \A k \in 1 .. Len(stdout) :
        IF matches.quiet THEN IsLowerHex(stdout[k]) ELSE IsFramed(stdout[k])

\* a quiet update run has printed two bare digests
C9_Witness ==
    /\ matches.quiet
    /\ matches.update
    /\ Len(stdout) = 2
    /\ IsLowerHex(stdout[1])
    /\ ~IsFramed(stdout[2])

\* the hex text of an input in hex mode, when it can be read
HexSource(input) ==
    IF input.tag = "Text" THEN Ok(input.value) ELSE read_to_string(input.value)

\* in hex mode the input is readable and one of its tokens is no hex byte
BadHexInput(input) ==
    /\ matches.hex
    /\ HexSource(input).ok
    /\ LET toks == tokens(HexSource(input).val) IN
       \E n \in 1 .. Len(toks) : ~hex_to_byte(toks[n]).ok

\* C10: a hex decode error is fatal: the loop never gets past an input with a
\* bad token; the run ends at that input with the data-format status, having
\* printed nothing for it and not having extended the buffer by any of its
\* bytes; no later input is processed.
C10_DecodeErrorFatal ==
    /\ \A k \in 1 .. pos : ~BadHexInput(inputs[k])
    /\ Len(stdout) <= pos
    /\ (pc = "done") => (pos = Len(inputs) /\ status = "OK")
    /\ (pc = "compute" /\ pos < Len(inputs) /\ BadHexInput(inputs[pos + 1]))
          => status = "running"
    /\ (status = "DATAERR") <=>
          (pc = "exit" /\ pos < Len(inputs) /\ BadHexInput(inputs[pos + 1]))
    /\ (status = "DATAERR") =>
          /\ Len(stdout) = pos
          /\ hasher = (IF matches.update THEN ConsumedBytes(pos) ELSE <<>>)
          /\ Len(stderr) = 1
          /\ stderr[1].kind \in
                {"InvalidLength", "InvalidHexPrefix", "InvalidHexCharacter"}

\* an update run has consumed one input and then left at an input whose second
\* token is bad, with a later input never reached
C10_Witness ==
    /\ status = "DATAERR"
    /\ matches.update
    /\ pos = 1
    /\ Len(inputs) = 3
    /\ hasher = BytesOf(1)
    /\ hasher # <<>>
    /\ Len(stdout) = 1
    /\ Len(tokens(HexSource(inputs[2]).val)) = 2
    /\ hex_to_byte(tokens(HexSource(inputs[2]).val)[1]).ok

----------------------------------------------------------------------------
(* The hex decoder on its own *)

\* the chars of the tokens tried: 0 1 2 x X z and the two-byte char e-acute
TokAlphabet == {48, 49, 50, 120, 88, 122, 233}

\* every hex digit and the chars next to the three digit ranges
DigitEdge == (47 .. 58) \cup (64 .. 71) \cup (96 .. 103)

\* the tokens handed to hex_to_byte
TokenSet ==
    UNION {[1 .. n -> TokAlphabet] : n \in 1 .. MaxTokLen}
      \cup {<<48, p, c, d>> : p \in {120, 88}, c \in DigitEdge, d \in DigitEdge}

\* the byte sequences of the round trip: every single byte, and the
\* sequences over a few bytes
ByteSample == {0, 10, 171, 255}
ByteSeqs ==
    {<<b>> : b \in Byte} \cup UNION {[1 .. n -> ByteSample] : n \in 0 .. MaxBytes}

\* a byte written as a 0xNN token, in lowercase or in uppercase
upper_digit(n) == IF n < 10 THEN 48 + n ELSE 55 + n
encode_token(b, upper) ==
    IF upper THEN <<48, 88, upper_digit(b \div 16), upper_digit(b % 16)>>
    ELSE <<48, 120>> \o format_02x(b)

\* the tokens of a byte sequence joined with single spaces
RECURSIVE encode_bytes(_, _)
encode_bytes(bytes, upper) ==
    IF bytes = <<>> THEN <<>>
    ELSE IF Len(bytes) = 1 THEN encode_token(bytes[1], upper)
    ELSE encode_token(bytes[1], upper) \o <<32>>
            \o encode_bytes(Tail(bytes), upper)

\* the separators tried: space, comma, tab, line feed, no-break space
SepChars == {32, 44, 9, 10, 160}

\* a piece of a hex string: one separator char, or one valid token, of which
\* two are tried: "0xab" (the byte 171) and "0X0F" (the byte 15)
Piece ==
    {[t |-> "sep", c |-> c] : c \in SepChars}
      \cup {[t |-> "tok", c |-> 171, upper |-> FALSE],
            [t |-> "tok", c |-> 15, upper |-> TRUE]}

\* the hex strings made of n pieces; two tokens never touch, since together
\* they would be one token
PieceSeqs(n) ==
    {ps \in [1 .. n -> Piece] :
        \A k \in 1 .. n - 1 : ps[k].t = "sep" \/ ps[k + 1].t = "sep"}

\* the text of a sequence of pieces
render(ps) ==
    Concat([k \in 1 .. Len(ps) |->
               IF ps[k].t = "sep" THEN <<ps[k].c>>
               ELSE encode_token(ps[k].c, ps[k].upper)])

\* the bytes of the tokens of a sequence of pieces, in order
piece_bytes(ps) ==
    LET toks == SelectSeq(ps, LAMBDA q : q.t = "tok")
    IN  [k \in 1 .. Len(toks) |-> toks[k].c]

HexCalls ==
    {[fn |-> "hex_to_byte", arg |-> t] : t \in TokenSet}
      \cup {[fn |-> "hex_to_byte_slice", arg |-> encode_bytes(b, u),
             bytes |-> b] : b \in ByteSeqs, u \in BOOLEAN}

\* the calls of hex_to_byte_slice on the mixes of n separators and tokens
MixCalls(n) ==
    {[fn |-> "hex_to_byte_slice", arg |-> render(ps),
      bytes |-> piece_bytes(ps), pieces |-> ps] : ps \in PieceSeqs(n)}

\* the state of main while a single function is run
Idle ==
    /\ matches \in {m \in Matches : m.text_indices = <<>> /\ m.file_indices = <<>>
                                    /\ ~m.md5 /\ ~m.blake3 /\ ~m.hex
                                    /\ ~m.update /\ ~m.quiet}
    /\ pc = "idle"
    /\ i = 0
    /\ j = 0
    /\ inputs = <<>>
    /\ hasher = HashImpl_new
    /\ pos = 0
    /\ stdout = <<>>
    /\ stderr = <<>>
    /\ status = "running"

InitHex ==
    /\ Idle
    /\ \/ call \in HexCalls
       \/ \E n \in 0 .. MaxPieces : call \in MixCalls(n)
    /\ style = OutputStyle_new
    /\ ret = NoCall

CallHexToByte ==
    /\ pc = "idle"
    /\ call.fn = "hex_to_byte"
    /\ ret = NoCall
    /\ ret' = hex_to_byte(call.arg)
    /\ UNCHANGED <<call, style>>
    /\ UNCHANGED runVars

CallHexToByteSlice ==
    /\ pc = "idle"
    /\ call.fn = "hex_to_byte_slice"
    /\ ret = NoCall
    /\ ret' = hex_to_byte_slice(call.arg)
    /\ UNCHANGED <<call, style>>
    /\ UNCHANGED runVars

NextHex ==
    \/ CallHexToByte
    \/ CallHexToByteSlice

SpecHex == InitHex /\ [][NextHex]_vars

\* the chars 0-9A-Fa-f
HexChars == (48 .. 57) \cup (65 .. 70) \cup (97 .. 102)

\* hex_to_byte has returned
ByteReturned == call.fn = "hex_to_byte" /\ ret # NoCall

\* C5: hex_to_byte rejects a token by the rule it breaks: not exactly 4 chars
\* gives InvalidLength, 4 chars not starting with 0x or 0X gives
\* InvalidHexPrefix, 4 chars with the prefix and a 3rd or 4th char outside
\* 0-9A-Fa-f gives InvalidHexCharacter; a token keeping all rules is accepted.
C5_RejectsByRule ==
    ByteReturned =>
        LET t == call.arg IN
        IF Len(t) # 4
        THEN ~ret.ok /\ ret.err.kind = "InvalidLength"
        ELSE IF SubSeq(t, 1, 2) \notin {<<48, 120>>, <<48, 88>>}
        THEN ~ret.ok /\ ret.err.kind = "InvalidHexPrefix"
        ELSE IF t[3] \notin HexChars \/ t[4] \notin HexChars
        THEN ~ret.ok /\ ret.err.kind = "InvalidHexCharacter"
        ELSE ret.ok

\* C6: hex decoding round-trips: the bytes written as 0xNN tokens joined with
\* single spaces decode to the same bytes, with no decode error.
C6_RoundTrip ==
    (call.fn = "hex_to_byte_slice" /\ ret # NoCall) =>
        (~ret.exit /\ ret.bytes = call.bytes)

\* three bytes, the lowercase digits a-f among them, have been decoded back
C6_Witness ==
    /\ call.fn = "hex_to_byte_slice"
    /\ ret # NoCall
    /\ call.bytes = <<171, 0, 255>>
    /\ call.arg = <<48, 120, 97, 98, 32, 48, 120, 48, 48, 32, 48, 120, 102, 102>>
    /\ ret.bytes = <<171, 0, 255>>

----------------------------------------------------------------------------
(* OutputStyle on its own *)

\* how far past the preview width the entries go
MaxEntryLen == PreviewLen + MaxOver

\* an entry of n chars: letters, digits, or two-byte chars
EntryOf(n, p) ==
    [k \in 1 .. n |->
        IF p = 0 THEN 97 + (k % 26)
        ELSE IF p = 1 THEN 48 + ((7 * k) % 10)
        ELSE 224 + (k % 30)]

SummaryCalls ==
    {[fn |-> "summary", tag |-> t, value |-> EntryOf(n, p), action |-> a,
      algo |-> g] :
        t \in {"Text", "File"}, n \in 0 .. MaxEntryLen, p \in 0 .. 2,
        a \in {COMPUTE, UPDATE}, g \in HashAlgorithm}

InitSummary ==
    /\ Idle
    /\ call \in SummaryCalls
    /\ style = OutputStyle_new
    /\ ret = NoCall

\* OutputStyle::new, set_algorithm, add_text
StyleAddText ==
    /\ pc = "idle"
    /\ call.fn = "summary"
    /\ call.tag = "Text"
    /\ style = OutputStyle_new
    /\ style' = add_text(set_algorithm(OutputStyle_new, call.algo), call.value)
    /\ UNCHANGED <<call, ret>>
    /\ UNCHANGED runVars

\* OutputStyle::new, set_algorithm, add_file
StyleAddFile ==
    /\ pc = "idle"
    /\ call.fn = "summary"
    /\ call.tag = "File"
    /\ style = OutputStyle_new
    /\ style' = add_file(set_algorithm(OutputStyle_new, call.algo), call.value)
    /\ UNCHANGED <<call, ret>>
    /\ UNCHANGED runVars

\* add_hash, summary
StyleSummary ==
    /\ pc = "idle"
    /\ call.fn = "summary"
    /\ style.entry_type # <<>>
    /\ ret = NoCall
    /\ style' = add_hash(style, hex_digest_input(as_bytes(call.value), call.algo))
    /\ ret' = summary(style', call.action)
    /\ UNCHANGED call
    /\ UNCHANGED runVars

NextSummary ==
    \/ StyleAddText
    \/ StyleAddFile
    \/ StyleSummary

SpecSummary == InitSummary /\ [][NextSummary]_vars

\* summary has returned
SummaryReturned == call.fn = "summary" /\ ret # NoCall

\* the block with the given preview and the given marker after the bracket
BlockWith(shown, marker) ==
    Delimiter \o <<10, 91>> \o call.action \o <<32>>
      \o (IF call.tag = "Text" THEN <<84, 69, 88, 84>> ELSE <<70, 73, 76, 69>>)
      \o <<93, 32, 91>> \o shown \o <<93>> \o marker \o <<10, 91>>
      \o (IF call.algo = "MD5" THEN <<77, 68, 53>>
          ELSE IF call.algo = "BLAKE3" THEN <<66, 76, 65, 75, 69, 51>>
          ELSE <<83, 72, 65, 50, 53, 54>>)
      \o <<32, 72, 65, 83, 72, 93, 32, 91>> \o style.hash
      \o <<93, 10>> \o Delimiter \o <<10>>

\* C7: an entry of exactly 40 chars is rendered in full, with no ellipsis
\* after the closing bracket of the preview.
C7_ExactWidthNoEllipsis ==
    (SummaryReturned /\ Len(call.value) = 40) =>
        ret = BlockWith(call.value, <<>>)

\* C8: an entry longer than 40 chars is rendered as its first 40 chars and
\* the ellipsis; an entry shorter than 40 chars is rendered in full with no
\* ellipsis.
C8_TruncateLonger ==
    SummaryReturned =>
        /\ Len(call.value) > 40 =>
              ret = BlockWith(SubSeq(call.value, 1, 40), <<46, 46, 46>>)
        /\ Len(call.value) < 40 => ret = BlockWith(call.value, <<>>)

\* a file path of 42 chars has been rendered
C8_Witness ==
    /\ SummaryReturned
    /\ call.tag = "File"
    /\ Len(call.value) = 42
    /\ style.len = 40
    /\ Len(ret) > 0

----------------------------------------------------------------------------
(* The life of the shared HashImpl in update mode *)

\* the number of digests computed from the shared HashImpl so far: in update
\* mode every iteration calls hex_digest once and prints what it returns
Finalizations == IF matches.update THEN Len(stdout) ELSE 0

\* C11: in update mode the running state is empty at the start of the run, a
\* digest is computed from it only once all inputs are consumed, and only
\* once, and no update call follows a digest computation on it.
C11_FinalizedOnceAtEnd ==
    /\ [](pc = "merge" => hasher = <<>>)
    /\ []((matches.update /\ Finalizations >= 1)
              => (pos = Len(inputs) /\ Finalizations = 1))
    /\ [][(matches.update /\ Finalizations >= 1) => pos' = pos]_vars

----------------------------------------------------------------------------
(* The token boundaries of hex_to_byte_slice *)

\* hex_to_byte_slice has returned from a mix of separators and tokens
MixReturned ==
    /\ call.fn = "hex_to_byte_slice"
    /\ "pieces" \in DOMAIN call
    /\ ret # NoCall

\* C12: hex_to_byte_slice splits on every whitespace char and every comma and
\* drops the empty tokens: whatever the number and mix of separators before,
\* between and after valid tokens, the result has one byte per token, in
\* token order, and an empty or separator-only input gives no byte and no
\* error.
C12_SplitOnSeparators ==
    MixReturned =>
        LET toks == SelectSeq(call.pieces, LAMBDA q : q.t = "tok") IN
        /\ ~ret.exit
        /\ Len(ret.bytes) = Len(toks)
        /\ \A k \in 1 .. Len(toks) : ret.bytes[k] = toks[k].c
        /\ (Len(toks) = 0) => (ret.bytes = <<>>)

\* ",0xab<no-break space>0X0F<line feed>" has been decoded to 171, 15
C12_Witness ==
    /\ MixReturned
    /\ call.arg = <<44, 48, 120, 97, 98, 160, 48, 88, 48, 70, 10>>
    /\ ret.bytes = <<171, 15>>

----------------------------------------------------------------------------
(* The byte value of a token *)

\* the sixteen hex digits in order of value, in lowercase and in uppercase
LowerDigits ==
    <<48, 49, 50, 51, 52, 53, 54, 55, 56, 57, 97, 98, 99, 100, 101, 102>>
UpperDigits ==
    <<48, 49, 50, 51, 52, 53, 54, 55, 56, 57, 65, 66, 67, 68, 69, 70>>

\* the value 0..15 of a hex digit
NibbleOf(c) ==
    CHOOSE n \in 0 .. 15 : LowerDigits[n + 1] = c \/ UpperDigits[n + 1] = c

\* a token with the prefix 0x or 0X and two hex digits
ValidToken(t) ==
    /\ Len(t) = 4
    /\ t[1] = 48
    /\ t[2] \in {120, 88}
    /\ t[3] \in HexChars
    /\ t[4] \in HexChars

\* C13: for every valid token hex_to_byte returns 16*hi + lo, hi and lo being
\* the values 0..15 of the 3rd and 4th char, a-f and A-F both 10..15; the
\* result is in 0..255 and neither hi*16 nor hi*16 + lo leaves the 8 bits.
C13_ByteValue ==
    (ByteReturned /\ ValidToken(call.arg)) =>
        LET t == call.arg
            hi == val(t[3], t)
            lo == val(t[4], t)
        IN  /\ ret.ok
            /\ ret.val = 16 * NibbleOf(t[3]) + NibbleOf(t[4])
            /\ ret.val \in 0 .. 255
            /\ hi.ok /\ hi.val = NibbleOf(t[3]) /\ hi.val * 16 \in 0 .. 255
            /\ lo.ok /\ lo.val = NibbleOf(t[4])
            /\ hi.val * 16 + lo.val \in 0 .. 255

\* "0XfA" has been decoded to 250: uppercase prefix, one digit of each case
C13_Witness ==
    /\ ByteReturned
    /\ call.arg = <<48, 88, 102, 65>>
    /\ ret.ok
    /\ ret.val = 250

----------------------------------------------------------------------------
(* get_inputs on its own *)

\* get_inputs reads only the indices and the values of --text and --file:
\* the flags are left at their defaults
InitMerge ==
    /\ Init
    /\ ~matches.md5
    /\ ~matches.blake3
    /\ ~matches.hex
    /\ ~matches.update
    /\ ~matches.quiet

NextMerge ==
    \/ MergeStep
    \/ MergeTail

\* the loop and the tail are straight-line code of one thread: a step that
\* can be taken is taken
SpecMerge == InitMerge /\ [][NextMerge]_vars /\ WF_vars(NextMerge)

\* the entries of the given kind in the result, in result order
EntriesOf(tag) == SelectSeq(inputs, LAMBDA e : e.tag = tag)

\* the result holds every text entry and every file entry once, each kind in
\* its own order
CompleteInterleaving ==
    /\ Len(inputs) = Len(matches.text_values) + Len(matches.file_values)
    /\ EntriesOf("Text") =
          [k \in 1 .. Len(matches.text_values) |->
              [tag |-> "Text", value |-> matches.text_values[k],
               idx |-> matches.text_indices[k]]]
    /\ EntriesOf("File") =
          [k \in 1 .. Len(matches.file_values) |->
              [tag |-> "File", value |-> matches.file_values[k],
               idx |-> matches.file_indices[k]]]

\* C14: the merge loop of get_inputs terminates, and its result is a complete
\* interleaving: as long as the text entries plus the file entries, every
\* entry once, the text entries in their order and the file entries in
\* theirs, the tail of the list not exhausted appended in full.
C14_MergeComplete ==
    /\ <>Returned
    /\ [](Returned => CompleteInterleaving)

\* text index [0] and file indices [1, 2]: the loop ran once and the two file
\* entries were appended as the tail
C14_Witness ==
    /\ Returned
    /\ matches.text_indices = <<0>>
    /\ matches.file_indices = <<1, 2>>
    /\ i = 1
    /\ j = 0
    /\ [k \in 1 .. Len(inputs) |-> <<inputs[k].tag, inputs[k].idx>>]
         = << <<"Text", 0>>, <<"File", 1>>, <<"File", 2>> >>

====
